---- MODULE Spec2Model ----
(***************************************************************************)
(* Location resolution (device sensor, then IP providers) and proximity    *)
(* search of the store finder: geoUtils (getLocationFromIP,                *)
(* getCurrentPosition, getLocationWithFallback, calculateDistance,         *)
(* sortMerchantsByDistance) and the Index page that drives them.           *)
(*                                                                         *)
(* Angles are integers in units of 0.00001 degree (150000 is 1.5).         *)
(***************************************************************************)
EXTENDS Integers, Sequences, FiniteSets, TLC

(***************************************************************************)
(* JavaScript values carried by a provider's JSON payload, and the         *)
(* numbers the extraction computes from them.                              *)
(***************************************************************************)
Undef == [k |-> "undefined"]
Null == [k |-> "null"]
NaN == [k |-> "NaN"]
Num(n) == [k |-> "number", n |-> n]
Str(s) == [k |-> "string", s |-> s]

\* decimal places an angle is kept to, and the integer that stands for 1 degree
ScaleDigits == 5
Scale == 10 ^ ScaleDigits

Digits == <<"0", "1", "2", "3", "4", "5", "6", "7", "8", "9">>

IsDigit(c) == \E d \in 1..10 : Digits[d] = c

DigitVal(c) == (CHOOSE d \in 1..10 : Digits[d] = c) - 1

RECURSIVE IntDigits(_)
IntDigits(n) == IF n < 10 THEN <<Digits[n + 1]>>
                ELSE Append(IntDigits(n \div 10), Digits[(n % 10) + 1])

\* fraction digits of f (0 <= f < 10^w) written with w digits, trailing zeros dropped
RECURSIVE FracDigits(_, _)
FracDigits(f, w) ==
  IF f = 0 THEN <<>>
  ELSE LET unit == 10 ^ (w - 1)
       IN <<Digits[(f \div unit) + 1]>> \o FracDigits(f % unit, w - 1)

\* the digits of a magnitude, with its sign in front
SignedString(negative, mag) ==
  (IF negative THEN <<"-">> ELSE <<>>)
  \o IntDigits(mag \div Scale)
  \o (IF mag % Scale = 0 THEN <<>> ELSE <<".">> \o FracDigits(mag % Scale, ScaleDigits))

\* Number::toString of a finite number
NumberToString(n) == SignedString(n < 0, IF n < 0 THEN 0 - n ELSE n)

\* ToString(argument), the first step of parseFloat
JsToString(v) ==
  CASE v.k = "string" -> v.s
    [] v.k = "number" -> NumberToString(v.n)
    [] v.k = "undefined" -> <<"u", "n", "d", "e", "f", "i", "n", "e", "d">>
    [] v.k = "null" -> <<"n", "u", "l", "l">>
    [] OTHER -> <<"N", "a", "N">>

RECURSIVE SkipSpaces(_)
SkipSpaces(s) == IF s # <<>> /\ Head(s) = " " THEN SkipSpaces(Tail(s)) ELSE s

RECURSIVE TakeDigits(_)
TakeDigits(s) == IF s # <<>> /\ IsDigit(Head(s))
                 THEN <<Head(s)>> \o TakeDigits(Tail(s))
                 ELSE <<>>

RECURSIVE DigitsValue(_)
DigitsValue(ds) == IF ds = <<>> THEN 0
                   ELSE DigitsValue(SubSeq(ds, 1, Len(ds) - 1)) * 10 + DigitVal(ds[Len(ds)])

\* the first w digits of ds as a number, short sequences padded with zeros
RECURSIVE FracValue(_, _)
FracValue(ds, w) ==
  IF w = 0 THEN 0
  ELSE (IF ds = <<>> THEN 0 ELSE DigitVal(Head(ds)) * 10 ^ (w - 1))
       + FracValue(IF ds = <<>> THEN <<>> ELSE Tail(ds), w - 1)

\* the number read from the digits ip before and fp behind the decimal point
MakeNumber(negative, ip, fp) ==
  IF ip = <<>> /\ fp = <<>> THEN NaN
  ELSE IF negative
       THEN Num(0 - (DigitsValue(ip) * Scale + FracValue(fp, ScaleDigits)))
       ELSE Num(DigitsValue(ip) * Scale + FracValue(fp, ScaleDigits))

\* the digits behind a decimal point at the head of rest
FractionDigits(rest) ==
  IF rest # <<>> /\ Head(rest) = "." THEN TakeDigits(Tail(rest)) ELSE <<>>

\* u starts with the integer digits ip
ParseFraction(negative, ip, u) ==
  MakeNumber(negative, ip, FractionDigits(SubSeq(u, Len(ip) + 1, Len(u))))

\* t is the string without its leading white space
ParseSigned(t) ==
  IF t # <<>> /\ Head(t) \in {"-", "+"}
  THEN ParseFraction(Head(t) = "-", TakeDigits(Tail(t)), Tail(t))
  ELSE ParseFraction(FALSE, TakeDigits(t), t)

\* parseFloat: leading white space, optional sign, the longest decimal
\* prefix; NaN when there is no digit.
parseFloat(v) == ParseSigned(SkipSpaces(JsToString(v)))

\* String.prototype.split(',')
RECURSIVE split(_)
split(s) ==
  IF \A i \in 1..Len(s) : s[i] # ","
  THEN <<s>>
  ELSE LET i == CHOOSE j \in 1..Len(s) : s[j] = "," /\ \A h \in 1..(j - 1) : s[h] # ","
       IN <<SubSeq(s, 1, i - 1)>> \o split(SubSeq(s, i + 1, Len(s)))

\* JavaScript truthiness of a payload field
Truthy(v) ==
  CASE v.k = "number" -> v.n # 0
    [] v.k = "string" -> v.s # <<>>
    [] OTHER -> FALSE

isNaN(v) == v.k = "NaN"

(***************************************************************************)
(* getLocationFromIP: the providers and the extraction of one payload.     *)
(***************************************************************************)
NumServices == 5
Services == 1..NumServices
IpAccuracy == 50000

\* the first element of a for...of iteration over services
FirstService == 1

\* the element the loop takes after service i
NextService(i) == i + 1

EmptyData == [latitude |-> Undef, longitude |-> Undef, lat |-> Undef, lon |-> Undef,
              loc |-> Undef]

\* lines 508-510: [latStr, lngStr] = data.loc.split(','), both parsed
LocCoordinates(parts) ==
  [thrown |-> FALSE,
   lat |-> parseFloat(Str(parts[1])),
   lng |-> parseFloat(IF Len(parts) >= 2 THEN Str(parts[2]) ELSE Undef)]

\* lines 498-511: lat/lng taken from the payload; thrown when data.loc has no split
ExtractCoordinates(data) ==
  IF Truthy(data.latitude) /\ Truthy(data.longitude)
  THEN [thrown |-> FALSE, lat |-> parseFloat(data.latitude), lng |-> parseFloat(data.longitude)]
  ELSE IF Truthy(data.lat) /\ Truthy(data.lon)
  THEN [thrown |-> FALSE, lat |-> parseFloat(data.lat), lng |-> parseFloat(data.lon)]
  ELSE IF Truthy(data.loc)
  THEN IF data.loc.k # "string"
       THEN [thrown |-> TRUE, lat |-> Null, lng |-> Null]
       ELSE LocCoordinates(split(data.loc.s))
  ELSE [thrown |-> FALSE, lat |-> Null, lng |-> Null]

\* line 513: the test that lets a provider's coordinate be returned
ValidCoordinates(lat, lng) ==
  lat # Null /\ lng # Null /\ ~isNaN(lat) /\ ~isNaN(lng)

\* lines 513-519: the extracted pair is returned, or the loop goes on (Null)
ReturnedCoordinate(e) ==
  IF ~e.thrown /\ ValidCoordinates(e.lat, e.lng)
  THEN [lat |-> e.lat.n, lng |-> e.lng.n]
  ELSE Null

\* One settled fetch: the coordinate returned from the loop body, or Null
\* when the loop goes on (fetch threw or timed out, response not ok,
\* json() threw, extraction threw, or the test of line 513 failed).
ServiceCoordinate(resp) ==
  IF resp.kind # "ok" THEN Null ELSE ReturnedCoordinate(ExtractCoordinates(resp.data))

(***************************************************************************)
(* What the collaborators can answer.                                      *)
(***************************************************************************)
\* "1.5", "103.7", "0", "x" and "1.5,103.7" as character sequences
S1p5 == <<"1", ".", "5">>
S103p7 == <<"1", "0", "3", ".", "7">>
S0 == <<"0">>
Sx == <<"x">>
SLoc == S1p5 \o <<",">> \o S103p7

Payloads ==
  { [EmptyData EXCEPT !.latitude = Num(150000), !.longitude = Num(10370000)],
    [EmptyData EXCEPT !.latitude = Str(S1p5), !.longitude = Str(S103p7)],
    [EmptyData EXCEPT !.lat = Num(150000), !.lon = Num(10370000)],
    [EmptyData EXCEPT !.loc = Str(SLoc)],
    [EmptyData EXCEPT !.latitude = Num(315900), !.longitude = Num(10168690)],
    [EmptyData EXCEPT !.latitude = Num(0), !.longitude = Num(10370000)],
    [EmptyData EXCEPT !.latitude = Str(S0), !.longitude = Str(S103p7)],
    [EmptyData EXCEPT !.latitude = Num(9500000), !.longitude = Num(10370000)],
    [EmptyData EXCEPT !.lat = Num(150000), !.lon = Num(18500000)],
    [EmptyData EXCEPT !.loc = Str(Sx)],
    [EmptyData EXCEPT !.loc = Num(500000)],
    EmptyData }

\* a settled fetch: it threw a network error, was aborted by the 5 s
\* AbortSignal.timeout, answered with
\* a non-OK status, answered OK with a body json() cannot read, or answered
\* OK with a JSON payload
Responses ==
  { [kind |-> k, data |-> EmptyData] : k \in {"error", "timeout", "notok", "badjson"} }
  \cup { [kind |-> "ok", data |-> d] : d \in Payloads }

\* GeolocationPositionError codes
SensorErrors == {"PERMISSION_DENIED", "POSITION_UNAVAILABLE", "TIMEOUT"}

\* positions the device sensor can report (accuracy in metres)
SensorFixes ==
  { [lat |-> 313900, lng |-> 10168690, accuracy |-> 20],
    [lat |-> 313900, lng |-> 10168690, accuracy |-> 1000],
    [lat |-> 319900, lng |-> 10168690, accuracy |-> 1500],
    [lat |-> 319900, lng |-> 10168690, accuracy |-> 10000] }

(***************************************************************************)
(* The coordinate a payload carries, read off the payload itself: the      *)
(* three shapes {latitude, longitude}, {lat, lon} and loc = "lat,lon",     *)
(* fields being numbers or numeric strings (spec, sections 3 and 4.1).     *)
(***************************************************************************)
InRange(lat, lng) ==
  /\ 0 - 90 * Scale <= lat /\ lat <= 90 * Scale
  /\ 0 - 180 * Scale <= lng /\ lng <= 180 * Scale

IsNumber(v) == v.k = "number"

NumericValue(v) == IF v.k \in {"number", "string"} THEN parseFloat(v) ELSE NaN

PairOfNumbers(a, b) ==
  IF IsNumber(a) /\ IsNumber(b) THEN [lat |-> a.n, lng |-> b.n] ELSE Null

PairOf(a, b) == PairOfNumbers(NumericValue(a), NumericValue(b))

LocPair(parts) ==
  IF Len(parts) >= 2 THEN PairOf(Str(parts[1]), Str(parts[2])) ELSE Null

DataCoordinate(d) ==
  IF d.latitude # Undef /\ d.longitude # Undef THEN PairOf(d.latitude, d.longitude)
  ELSE IF d.lat # Undef /\ d.lon # Undef THEN PairOf(d.lat, d.lon)
  ELSE IF d.loc.k = "string" THEN LocPair(split(d.loc.s))
  ELSE Null

CarriedCoordinate(resp) ==
  IF resp.kind # "ok" THEN Null ELSE DataCoordinate(resp.data)

InRangeCoordinate(c) == c # Null /\ InRange(c.lat, c.lng)

WellFormed(resp) == InRangeCoordinate(CarriedCoordinate(resp))

(***************************************************************************)
(* State of one resolution call, getLocationWithFallback().                *)
(***************************************************************************)
VARIABLES
  hasGeolocation,  \* navigator.geolocation is defined
  rpc,             \* "idle", "sensor" (awaiting the sensor callback),
                   \* "fetch" (awaiting fetch of services[ipIndex]), "done"
  ipCaller,        \* the function whose call of getLocationFromIP is running
  ipIndex,         \* the service the loop is at
  sensorState,     \* "none", "ok", "unsupported" or the sensor's error code
  sensorRequests,  \* calls of navigator.geolocation.getCurrentPosition
  sensorPosition,  \* the position handed to the sensor's success callback
  queried,         \* per service, the fetches issued in this resolution call
  ipLog,           \* the fetches settled in the running getLocationFromIP call
  lastResponse,    \* the answer of the latest settled fetch
  firstValid,      \* the first in-range coordinate a provider's payload carried
  outcome,         \* "pending", "resolved" or "rejected"
  result,          \* the value the call resolved with
  geocodeRequests  \* calls of geocodeAddress

rvars == <<hasGeolocation, rpc, ipCaller, ipIndex, sensorState, sensorRequests,
           sensorPosition, queried, ipLog, lastResponse, firstValid, outcome, result,
           geocodeRequests>>

NoResponse == [kind |-> "none", data |-> EmptyData]

ResolverInit ==
  /\ hasGeolocation \in BOOLEAN
  /\ rpc = "idle"
  /\ ipCaller = "none"
  /\ ipIndex = 0
  /\ sensorState = "none"
  /\ sensorRequests = 0
  /\ sensorPosition = Null
  /\ queried = [s \in Services |-> 0]
  /\ ipLog = <<>>
  /\ lastResponse = NoResponse
  /\ firstValid = Null
  /\ outcome = "pending"
  /\ result = Null
  /\ geocodeRequests = 0

\* PositionResult with the accuracy of an IP lookup in place of the position's
PositionResultFixedAccuracy(coords) ==
  [lat |-> coords.latitude, lng |-> coords.longitude, accuracy |-> IpAccuracy,
   method |-> "gps"]

\* lines 614-620: the value built from a position getCurrentPosition resolved with
PositionResult(coords) ==
  [lat |-> coords.latitude, lng |-> coords.longitude, accuracy |-> coords.accuracy,
   method |-> "gps"]

\* IpFallbackResult tagged as a manual entry
IpFallbackResultManual(ipLocation) ==
  [lat |-> ipLocation.lat, lng |-> ipLocation.lng, accuracy |-> ipLocation.accuracy,
   method |-> "manual"]

\* lines 627-633: the value built from getLocationFromIP in the catch block
IpFallbackResult(ipLocation) ==
  [lat |-> ipLocation.lat, lng |-> ipLocation.lng, accuracy |-> ipLocation.accuracy,
   method |-> "ip"]

\* lines 544-555, 573-584: the mock GeolocationPosition's coords
MockCoords(ipLocation) ==
  [latitude |-> ipLocation.lat, longitude |-> ipLocation.lng,
   accuracy |-> ipLocation.accuracy]

\* lines 514-518: what getLocationFromIP returns for an accepted coordinate
IpLocation(c) == [lat |-> c.lat, lng |-> c.lng, accuracy |-> IpAccuracy]

\* getLocationFromIP is entered: the loop issues the fetch of the first service
EnterGetLocationFromIP(caller) ==
  /\ rpc' = "fetch"
  /\ ipCaller' = caller
  /\ ipIndex' = FirstService
  /\ queried' = [queried EXCEPT ![FirstService] = @ + 1]
  /\ ipLog' = <<>>

\* getLocationWithFallback() is called: getCurrentPosition() runs up to its
\* first suspension, the sensor request or (no navigator.geolocation) the
\* first fetch of getLocationFromIP
GetLocationWithFallback ==
  /\ rpc = "idle"
  /\ IF hasGeolocation
     THEN /\ rpc' = "sensor"
          /\ sensorRequests' = sensorRequests + 1
          /\ UNCHANGED <<ipCaller, ipIndex, queried, ipLog, sensorState>>
     ELSE /\ EnterGetLocationFromIP("getCurrentPosition")
          /\ sensorState' = "unsupported"
          /\ UNCHANGED sensorRequests
  /\ UNCHANGED <<hasGeolocation, sensorPosition, lastResponse, firstValid, outcome,
                 result, geocodeRequests>>

\* the sensor's success callback: resolve(position), and the awaiting
\* getLocationWithFallback returns
SensorSuccess(fix) ==
  /\ rpc = "sensor"
  /\ rpc' = "done"
  /\ sensorState' = "ok"
  /\ sensorPosition' = fix
  /\ outcome' = "resolved"
  /\ result' = PositionResult([latitude |-> fix.lat, longitude |-> fix.lng,
                               accuracy |-> fix.accuracy])
  /\ UNCHANGED <<hasGeolocation, ipCaller, ipIndex, sensorRequests, queried, ipLog,
                 lastResponse, firstValid, geocodeRequests>>

\* SensorError giving up on a timeout
SensorErrorTimeoutRejects(code) ==
  /\ rpc = "sensor"
  /\ sensorState' = code
  /\ IF code = "TIMEOUT"
     THEN /\ rpc' = "done"
          /\ UNCHANGED <<ipCaller, ipIndex, queried, ipLog>>
     ELSE EnterGetLocationFromIP("getCurrentPosition")
  /\ outcome' = IF code = "TIMEOUT" THEN "rejected" ELSE outcome
  /\ UNCHANGED <<hasGeolocation, sensorRequests, sensorPosition, lastResponse,
                 firstValid, result, geocodeRequests>>

\* the sensor's error callback: it awaits getLocationFromIP()
SensorError(code) ==
  /\ rpc = "sensor"
  /\ sensorState' = code
  /\ EnterGetLocationFromIP("getCurrentPosition")
  /\ UNCHANGED <<hasGeolocation, sensorRequests, sensorPosition, lastResponse,
                 firstValid, outcome, result, geocodeRequests>>

\* The loop body after the awaited fetch of services[ipIndex] settled with
\* resp; c is the coordinate the body returns (Null: the loop goes on) and
\* entry the record of this fetch.  Either return the coordinate, or go on
\* to the next service, or (no service left) throw to the caller of
\* getLocationFromIP.
LoopBody(resp, c, entry) ==
  /\ lastResponse' = resp
  /\ firstValid' = IF firstValid = Null /\ WellFormed(resp)
                   THEN entry.carried ELSE firstValid
  /\ IF c # Null
     THEN \* return {lat, lng, accuracy}: getCurrentPosition resolves the
          \* mock position, or the catch block of getLocationWithFallback
          \* returns
          /\ rpc' = "done"
          /\ outcome' = "resolved"
          /\ result' = IF ipCaller = "getCurrentPosition"
                       THEN PositionResult(MockCoords(IpLocation(c)))
                       ELSE IpFallbackResult(IpLocation(c))
          /\ ipLog' = Append(ipLog, entry)
          /\ UNCHANGED <<ipCaller, ipIndex, queried>>
     ELSE IF ipIndex < NumServices
     THEN /\ ipIndex' = NextService(ipIndex)
          /\ queried' = [queried EXCEPT ![NextService(ipIndex)] = @ + 1]
          /\ ipLog' = Append(ipLog, entry)
          /\ UNCHANGED <<rpc, ipCaller, outcome, result>>
     ELSE IF ipCaller = "getCurrentPosition"
     THEN \* getCurrentPosition rejects; the catch block of
          \* getLocationWithFallback calls getLocationFromIP()
          /\ EnterGetLocationFromIP("getLocationWithFallback")
          /\ UNCHANGED <<outcome, result>>
     ELSE \* line 636: the call rejects
          /\ rpc' = "done"
          /\ outcome' = "rejected"
          /\ ipLog' = Append(ipLog, entry)
          /\ UNCHANGED <<ipCaller, ipIndex, queried, result>>
  /\ UNCHANGED <<hasGeolocation, sensorState, sensorRequests, sensorPosition,
                 geocodeRequests>>

\* the record ipLog keeps of one settled fetch
LogEntry(service, c, carried) ==
  [service |-> service, coordinate |-> c, carried |-> carried]

\* the awaited fetch of services[ipIndex] settles with resp
FetchSettle(resp) ==
  /\ rpc = "fetch"
  /\ LoopBody(resp, ServiceCoordinate(resp),
              LogEntry(ipIndex, ServiceCoordinate(resp), CarriedCoordinate(resp)))

(***************************************************************************)
(* Proximity search: calculateDistance and sortMerchantsByDistance.        *)
(* Distances are integers in hundredths of a kilometre, the unit the       *)
(* function rounds to; a radius is in kilometres.                          *)
(***************************************************************************)
R == 6371
PI == 314159

Abs(x) == IF x < 0 THEN 0 - x ELSE x

\* Math.round(distance * 100) for distance = num / den kilometres
RoundHundredths(num, den) == (2 * num + den) \div (2 * den)

\* calculateDistance without the absolute value of the angle
calculateDistanceSigned(lat1, lon1, lat2, lon2) ==
  LET dLat == lat2 - lat1
      dLon == lon2 - lon1
      c == CASE dLon = 0 -> dLat
             [] dLon # 0 /\ lat1 = 0 /\ lat2 = 0 -> dLon
      perDegree == (R * PI) \div (180 * 1000)
  IN RoundHundredths(c * perDegree, Scale)

\* The haversine formula where it has a closed form: on one meridian
\* (dLon = 0) a = sin^2(dLat / 2), so c = |dLat|; on the equator
\* (lat1 = lat2 = 0) a = sin^2(dLon / 2), so c = |dLon|.  The model's
\* coordinates stay within these two cases.  R * PI / 180 is taken in
\* hundredths of a kilometre per degree.
calculateDistance(lat1, lon1, lat2, lon2) ==
  LET dLat == lat2 - lat1
      dLon == lon2 - lon1
      c == CASE dLon = 0 -> Abs(dLat)
             [] dLon # 0 /\ lat1 = 0 /\ lat2 = 0 -> Abs(dLon)
      perDegree == (R * PI) \div (180 * 1000)
  IN RoundHundredths(c * perDegree, Scale)

\* a comparator that puts a record before the records at its distance
CompareDistanceTiesFirst(a, b) == a.distance - b.distance - 1

\* a.distance - b.distance of the comparator
CompareDistance(a, b) == a.distance - b.distance

\* Array.prototype.sort with comparator cmp: a stable sort, x goes behind
\* every element it does not compare below
RECURSIVE InsertSorted(_, _)
InsertSorted(sorted, x) ==
  IF sorted = <<>> THEN <<x>>
  ELSE IF CompareDistance(x, Head(sorted)) < 0 THEN <<x>> \o sorted
       ELSE <<Head(sorted)>> \o InsertSorted(Tail(sorted), x)

RECURSIVE SortByDistance(_)
SortByDistance(seq) ==
  IF seq = <<>> THEN <<>>
  ELSE InsertSorted(SortByDistance(SubSeq(seq, 1, Len(seq) - 1)), seq[Len(seq)])

\* WithinRadius with an exclusive boundary
WithinRadiusExclusive(merchant, maxRadius) == merchant.distance < maxRadius * 100

\* WithinRadius keeping only the outermost 5 km ring
WithinRadiusRing(merchant, maxRadius) ==
  /\ merchant.distance <= maxRadius * 100
  /\ merchant.distance > (maxRadius - 5) * 100

\* merchant.distance <= maxRadius, the radius being in kilometres
WithinRadius(merchant, maxRadius) == merchant.distance <= maxRadius * 100

\* {...merchant, distance}
WithDistance(merchant, userLat, userLon) ==
  [merchantId |-> merchant.merchantId, latitude |-> merchant.latitude,
   longitude |-> merchant.longitude, state |-> merchant.state,
   distance |-> calculateDistance(userLat, userLon, merchant.latitude, merchant.longitude)]

sortMerchantsByDistance(merchants, userLat, userLon, maxRadius) ==
  LET mapped == [i \in 1..Len(merchants) |-> WithDistance(merchants[i], userLat, userLon)]
      filtered == SelectSeq(mapped, LAMBDA m : WithinRadius(m, maxRadius))
  IN SortByDistance(filtered)

(***************************************************************************)
(* The Index page.  merchantsData is the static data set; isMobile is      *)
(* window.innerWidth < 768, the md breakpoint of the style sheet.          *)
(***************************************************************************)
MaxRequests == 2
MaxRadius == 15

Merchant(id, lat, st) ==
  [merchantId |-> id, latitude |-> lat, longitude |-> 10168690, state |-> st]

merchantsData ==
  << Merchant("m1", 313900, "Selangor"),
     Merchant("m2", 313904, "Selangor"),
     Merchant("m3", 318397, "Selangor"),
     Merchant("m4", 321900, "Johor"),
     Merchant("m5", 305900, "Selangor"),
     Merchant("m6", 343900, "Johor") >>

States == {merchantsData[i].state : i \in 1..Len(merchantsData)}

\* a coordinate an IP provider can report for the page's user
IpCoordinates == {[lat |-> 315900, lng |-> 10168690]}

\* the values getLocationWithFallback() can resolve with
ResolutionResults ==
  { PositionResult([latitude |-> f.lat, longitude |-> f.lng, accuracy |-> f.accuracy]) :
      f \in SensorFixes }
  \cup { PositionResult(MockCoords(IpLocation(c))) : c \in IpCoordinates }
  \cup { IpFallbackResult(IpLocation(c)) : c \in IpCoordinates }

VARIABLES
  merchants, selectedMerchant, userLocation, isLoadingLocation, currentRadius,
  isLoadingMore, hasMoreStores, isMobileSheetOpen, isInAppBrowser, searchMode,
  selectedState, mapCenter,
  isMobile,   \* window.innerWidth < 768
  mounted,    \* the mount effect has run
  started,    \* calls of handleFindNearMe so far
  pending,    \* the calls of handleFindNearMe suspended at their await
  newest      \* the latest-started call that resolved, and its location

pvars == <<merchants, selectedMerchant, userLocation, isLoadingLocation, currentRadius,
           isLoadingMore, hasMoreStores, isMobileSheetOpen, isInAppBrowser, searchMode,
           selectedState, mapCenter, isMobile, mounted, started, pending, newest>>

PageInit ==
  /\ merchants = <<>>
  /\ selectedMerchant = Null
  /\ userLocation = Null
  /\ isLoadingLocation = FALSE
  /\ currentRadius = 5
  /\ isLoadingMore = FALSE
  /\ hasMoreStores = TRUE
  /\ isMobileSheetOpen = FALSE
  /\ isInAppBrowser \in BOOLEAN
  /\ searchMode = "proximity"
  /\ selectedState = Null
  /\ mapCenter = Null
  /\ isMobile \in BOOLEAN
  /\ mounted = FALSE
  /\ started = 0
  /\ pending = {}
  /\ newest = [id |-> 0, location |-> Null]

\* the sidebar (md and wider) or the opened bottom sheet shows LocationStatus,
\* the search mode toggle and MerchantList
PanelVisible == mounted /\ (~isMobile \/ isMobileSheetOpen)

\* the map and its buttons are not covered by the full-screen sheet
MapVisible == mounted /\ ~isMobileSheetOpen

\* loadStoresInRadius announcing more stores when the next radius has as many
loadStoresInRadiusNotStrict(lat, lng, radius) ==
  LET storesInRadius == sortMerchantsByDistance(merchantsData, lat, lng, radius)
      nextRadiusStores == sortMerchantsByDistance(merchantsData, lat, lng, radius + 5)
  IN [merchants |-> storesInRadius,
      currentRadius |-> radius,
      hasMoreStores |-> Len(nextRadiusStores) >= Len(storesInRadius)]

\* loadStoresInRadius leaving currentRadius at its initial value
loadStoresInRadiusStaleRadius(lat, lng, radius) ==
  LET storesInRadius == sortMerchantsByDistance(merchantsData, lat, lng, radius)
      nextRadiusStores == sortMerchantsByDistance(merchantsData, lat, lng, radius + 5)
  IN [merchants |-> storesInRadius,
      currentRadius |-> 5,
      hasMoreStores |-> Len(nextRadiusStores) > Len(storesInRadius)]

\* the state setters loadStoresInRadius calls
loadStoresInRadius(lat, lng, radius) ==
  LET storesInRadius == sortMerchantsByDistance(merchantsData, lat, lng, radius)
      nextRadiusStores == sortMerchantsByDistance(merchantsData, lat, lng, radius + 5)
  IN [merchants |-> storesInRadius,
      currentRadius |-> radius,
      hasMoreStores |-> Len(nextRadiusStores) > Len(storesInRadius)]

\* the state setters loadStoresByState calls (state is a string value)
loadStoresByState(state) ==
  [merchants |-> SelectSeq(merchantsData, LAMBDA m : m.state = state.s),
   hasMoreStores |-> FALSE]

\* InitialRadius with the thresholds themselves on the wider side
InitialRadiusInclusive(accuracy) ==
  IF accuracy >= 10000 THEN 10
  ELSE IF accuracy >= 1000 THEN 7
  ELSE 5

\* lines 319-325: the initial radius for a reported accuracy
InitialRadius(accuracy) ==
  IF accuracy > 10000 THEN 10
  ELSE IF accuracy > 1000 THEN 7
  ELSE 5

\* handleFindNearMe up to its await of getLocationWithFallback()
StartFindNearMe ==
  /\ started < MaxRequests
  /\ started' = started + 1
  /\ pending' = pending \cup {started + 1}
  /\ isMobileSheetOpen' = IF isMobile THEN FALSE ELSE isMobileSheetOpen
  /\ isLoadingLocation' = TRUE
  /\ UNCHANGED <<merchants, selectedMerchant, userLocation, currentRadius, isLoadingMore,
                 hasMoreStores, isInAppBrowser, searchMode, selectedState, mapCenter,
                 isMobile, newest>>

\* useEffect on mount: the automatic find-me, unless in an in-app browser
MountEffect ==
  /\ ~mounted
  /\ mounted' = TRUE
  /\ IF ~isInAppBrowser THEN StartFindNearMe ELSE UNCHANGED <<merchants, selectedMerchant,
        userLocation, isLoadingLocation, currentRadius, isLoadingMore, hasMoreStores,
        isMobileSheetOpen, isInAppBrowser, searchMode, selectedState, mapCenter, isMobile,
        started, pending, newest>>

\* The controls wired to handleFindNearMe: MerchantList's "Find Near Me"
\* button and LocationStatus's button (both disabled={isLoadingLocation}),
\* the mobile floating button (md:hidden, never disabled) and the map's
\* button, which calls onFindNearMe while there is no userLocation (with a
\* userLocation it only recentres the map).
FindMeButtons == {"list", "status", "floating", "map"}

ButtonEnabled(button) ==
  CASE button = "list" -> PanelVisible /\ ~isLoadingLocation
    [] button = "status" -> PanelVisible /\ ~isLoadingLocation
    [] button = "floating" -> MapVisible /\ isMobile
    [] button = "map" -> MapVisible /\ userLocation = Null

ClickFindMe(button) ==
  /\ ButtonEnabled(button)
  /\ StartFindNearMe
  /\ UNCHANGED mounted

\* FindNearMeResolved without the finally block
FindNearMeResolvedNoFinally(id, location) ==
  /\ id \in pending
  /\ pending' = pending \ {id}
  /\ newest' = IF id > newest.id THEN [id |-> id, location |-> location] ELSE newest
  /\ userLocation' = [lat |-> location.lat, lng |-> location.lng,
                      accuracy |-> location.accuracy, method |-> location.method]
  /\ searchMode' = "proximity"
  /\ selectedState' = Null
  /\ mapCenter' = Null
  /\ LET loaded == loadStoresInRadius(location.lat, location.lng,
                                      InitialRadius(location.accuracy))
     IN /\ merchants' = loaded.merchants
        /\ currentRadius' = loaded.currentRadius
        /\ hasMoreStores' = loaded.hasMoreStores
  /\ UNCHANGED <<selectedMerchant, isLoadingLocation, isLoadingMore, isMobileSheetOpen,
                 isInAppBrowser, isMobile, mounted, started>>

\* getLocationWithFallback() of call id resolved with location: the rest of
\* the try block and the finally block
FindNearMeResolved(id, location) ==
  /\ id \in pending
  /\ pending' = pending \ {id}
  /\ newest' = IF id > newest.id THEN [id |-> id, location |-> location] ELSE newest
  /\ userLocation' = [lat |-> location.lat, lng |-> location.lng,
                      accuracy |-> location.accuracy, method |-> location.method]
  /\ searchMode' = "proximity"
  /\ selectedState' = Null
  /\ mapCenter' = Null
  /\ LET loaded == loadStoresInRadius(location.lat, location.lng,
                                      InitialRadius(location.accuracy))
     IN /\ merchants' = loaded.merchants
        /\ currentRadius' = loaded.currentRadius
        /\ hasMoreStores' = loaded.hasMoreStores
  /\ isLoadingLocation' = FALSE
  /\ UNCHANGED <<selectedMerchant, isLoadingMore, isMobileSheetOpen, isInAppBrowser,
                 isMobile, mounted, started>>

\* FindNearMeRejected dropping the location and the list it had
FindNearMeRejectedClearing(id) ==
  /\ id \in pending
  /\ pending' = pending \ {id}
  /\ isLoadingLocation' = FALSE
  /\ userLocation' = Null
  /\ merchants' = <<>>
  /\ UNCHANGED <<selectedMerchant, currentRadius, isLoadingMore,
                 hasMoreStores, isMobileSheetOpen, isInAppBrowser, searchMode,
                 selectedState, mapCenter, isMobile, mounted, started, newest>>

\* getLocationWithFallback() of call id rejected: the catch block (a toast)
\* and the finally block
FindNearMeRejected(id) ==
  /\ id \in pending
  /\ pending' = pending \ {id}
  /\ isLoadingLocation' = FALSE
  /\ UNCHANGED <<merchants, selectedMerchant, userLocation, currentRadius, isLoadingMore,
                 hasMoreStores, isMobileSheetOpen, isInAppBrowser, searchMode,
                 selectedState, mapCenter, isMobile, mounted, started, newest>>

\* handleLoadMoreStores dropping the selection
handleLoadMoreStoresDeselecting ==
  /\ PanelVisible
  /\ userLocation # Null /\ hasMoreStores /\ ~isLoadingMore
  /\ ~(userLocation = Null \/ isLoadingMore)
  /\ currentRadius + 5 <= MaxRadius
  /\ LET newRadius == currentRadius + 5
         loaded == loadStoresInRadius(userLocation.lat, userLocation.lng, newRadius)
     IN /\ merchants' = loaded.merchants
        /\ currentRadius' = loaded.currentRadius
        /\ hasMoreStores' = loaded.hasMoreStores
  /\ isLoadingMore' = FALSE
  /\ selectedMerchant' = Null
  /\ UNCHANGED <<userLocation, isLoadingLocation, isMobileSheetOpen,
                 isInAppBrowser, searchMode, selectedState, mapCenter, isMobile, mounted,
                 started, pending, newest>>

\* handleLoadMoreStores, reached from MerchantList's "Load More Stores"
\* button (rendered when userLocation && hasMoreStores, disabled while
\* isLoadingMore).  The handler has no await: isLoadingMore is set and
\* cleared within the one call.
handleLoadMoreStores ==
  /\ PanelVisible
  /\ userLocation # Null /\ hasMoreStores /\ ~isLoadingMore
  /\ ~(userLocation = Null \/ isLoadingMore)
  /\ currentRadius + 5 <= MaxRadius
  /\ LET newRadius == currentRadius + 5
         loaded == loadStoresInRadius(userLocation.lat, userLocation.lng, newRadius)
     IN /\ merchants' = loaded.merchants
        /\ currentRadius' = loaded.currentRadius
        /\ hasMoreStores' = loaded.hasMoreStores
  /\ isLoadingMore' = FALSE
  /\ UNCHANGED <<selectedMerchant, userLocation, isLoadingLocation, isMobileSheetOpen,
                 isInAppBrowser, searchMode, selectedState, mapCenter, isMobile, mounted,
                 started, pending, newest>>

\* handleSearchModeChange(mode), from the "Near Me" button (disabled when
\* !userLocation && searchMode !== 'proximity') and the "By State" button
handleSearchModeChange(mode) ==
  /\ PanelVisible
  /\ mode = "proximity" => ~(userLocation = Null /\ searchMode # "proximity")
  /\ searchMode' = mode
  /\ IF mode = "proximity"
     THEN /\ selectedState' = Null
          /\ mapCenter' = Null
          /\ IF userLocation # Null
             THEN LET loaded == loadStoresInRadius(userLocation.lat, userLocation.lng,
                                                   currentRadius)
                  IN /\ merchants' = loaded.merchants
                     /\ currentRadius' = loaded.currentRadius
                     /\ hasMoreStores' = loaded.hasMoreStores
             ELSE /\ merchants' = <<>>
                  /\ UNCHANGED <<currentRadius, hasMoreStores>>
     ELSE /\ IF selectedState # Null
             THEN /\ merchants' = loadStoresByState(selectedState).merchants
                  /\ hasMoreStores' = loadStoresByState(selectedState).hasMoreStores
                  /\ mapCenter' = [state |-> selectedState]
             ELSE /\ merchants' = <<>>
                  /\ mapCenter' = Null
                  /\ UNCHANGED hasMoreStores
          /\ UNCHANGED <<selectedState, currentRadius>>
  /\ UNCHANGED <<selectedMerchant, userLocation, isLoadingLocation, isLoadingMore,
                 isMobileSheetOpen, isInAppBrowser, isMobile, mounted, started, pending,
                 newest>>

\* handleStateChange with the StateSelector rendered in both search modes
handleStateChangeAnyMode(state) ==
  /\ PanelVisible
  /\ selectedState' = state
  /\ IF searchMode = "state"
     THEN IF state # Null
          THEN /\ merchants' = loadStoresByState(state).merchants
               /\ hasMoreStores' = loadStoresByState(state).hasMoreStores
               /\ mapCenter' = [state |-> state]
               /\ isMobileSheetOpen' = IF isMobile THEN FALSE ELSE isMobileSheetOpen
          ELSE /\ merchants' = <<>>
               /\ mapCenter' = Null
               /\ UNCHANGED <<hasMoreStores, isMobileSheetOpen>>
     ELSE UNCHANGED <<merchants, hasMoreStores, mapCenter, isMobileSheetOpen>>
  /\ UNCHANGED <<selectedMerchant, userLocation, isLoadingLocation, currentRadius,
                 isLoadingMore, isInAppBrowser, searchMode, isMobile, mounted, started,
                 pending, newest>>

\* handleStateChange(state), from the StateSelector, which is rendered in
\* state search mode; "All States" passes null
handleStateChange(state) ==
  /\ PanelVisible
  /\ searchMode = "state"
  /\ selectedState' = state
  /\ IF searchMode = "state"
     THEN IF state # Null
          THEN /\ merchants' = loadStoresByState(state).merchants
               /\ hasMoreStores' = loadStoresByState(state).hasMoreStores
               /\ mapCenter' = [state |-> state]
               /\ isMobileSheetOpen' = IF isMobile THEN FALSE ELSE isMobileSheetOpen
          ELSE /\ merchants' = <<>>
               /\ mapCenter' = Null
               /\ UNCHANGED <<hasMoreStores, isMobileSheetOpen>>
     ELSE UNCHANGED <<merchants, hasMoreStores, mapCenter, isMobileSheetOpen>>
  /\ UNCHANGED <<selectedMerchant, userLocation, isLoadingLocation, currentRadius,
                 isLoadingMore, isInAppBrowser, searchMode, isMobile, mounted, started,
                 pending, newest>>

\* handleMerchantSelect(merchant), from a list entry or a map marker
handleMerchantSelect(i) ==
  /\ PanelVisible \/ MapVisible
  /\ i \in 1..Len(merchants)
  /\ selectedMerchant' = merchants[i]
  /\ isMobileSheetOpen' = IF isMobile THEN FALSE ELSE isMobileSheetOpen
  /\ UNCHANGED <<merchants, userLocation, isLoadingLocation, currentRadius, isLoadingMore,
                 hasMoreStores, isInAppBrowser, searchMode, selectedState, mapCenter,
                 isMobile, mounted, started, pending, newest>>

\* the mobile list button, and the sheet's onOpenChange
SetIsMobileSheetOpen(open) ==
  /\ mounted /\ isMobile
  /\ isMobileSheetOpen # open
  /\ isMobileSheetOpen' = open
  /\ UNCHANGED <<merchants, selectedMerchant, userLocation, isLoadingLocation,
                 currentRadius, isLoadingMore, hasMoreStores, isInAppBrowser, searchMode,
                 selectedState, mapCenter, isMobile, mounted, started, pending, newest>>

(***************************************************************************)
(* A search on its own: inputs drawn at the start, sortMerchantsByDistance *)
(* applied to them, then applied again at a larger radius.                 *)
(***************************************************************************)
MaxRecords == 3
MaxSearchRadius == 12
MaxNegativeRadius == 2
MaxStep == 6

SearchCentres == {[lat |-> 313900, lng |-> 10168690], [lat |-> 315900, lng |-> 10168690]}

RecordLists ==
  { recs \in UNION { [1..n -> {merchantsData[i] : i \in 1..Len(merchantsData)}] :
                       n \in 0..MaxRecords } :
      \A i, j \in DOMAIN recs : i # j => recs[i].merchantId # recs[j].merchantId }

VARIABLES
  sPhase,    \* "input", "searched" (the call returned sResult), "expanded"
  sCentre, sRecords, sRadius,
  sResult,   \* the search at sRadius
  sStep,     \* the increment of the second search
  sWider     \* the search at sRadius + sStep

svars == <<sPhase, sCentre, sRecords, sRadius, sResult, sStep, sWider>>

SearchInit ==
  /\ sPhase = "input"
  /\ sCentre \in SearchCentres
  /\ sRecords \in RecordLists
  /\ sRadius \in (0 - MaxNegativeRadius)..MaxSearchRadius
  /\ sResult = <<>>
  /\ sStep = 0
  /\ sWider = <<>>

Search ==
  /\ sPhase = "input"
  /\ sPhase' = "searched"
  /\ sResult' = sortMerchantsByDistance(sRecords, sCentre.lat, sCentre.lng, sRadius)
  /\ UNCHANGED <<sCentre, sRecords, sRadius, sStep, sWider>>

SearchWider(d) ==
  /\ sPhase = "searched"
  /\ sPhase' = "expanded"
  /\ sStep' = d
  /\ sWider' = sortMerchantsByDistance(sRecords, sCentre.lat, sCentre.lng, sRadius + d)
  /\ UNCHANGED <<sCentre, sRecords, sRadius, sResult>>

(***************************************************************************)
(* calculateDistance on its own: two points drawn at the start, the        *)
(* function applied to them in both orders and to the first point twice.   *)
(* The points lie on two meridians and on the equator, less than a degree  *)
(* apart.                                                                  *)
(***************************************************************************)
DistancePoints ==
  { [lat |-> l, lng |-> 10168690] :
      l \in {313900, 313904, 318397, 321900, 305900, 343900} }
  \cup { [lat |-> l, lng |-> 0] : l \in {0 - 20000, 0, 20000} }
  \cup { [lat |-> 0, lng |-> g] : g \in {4, 50000, 0 - 40000} }

DistancePairs ==
  { pq \in DistancePoints \X DistancePoints :
      pq[1].lng = pq[2].lng \/ (pq[1].lat = 0 /\ pq[2].lat = 0) }

VARIABLES
  dPhase,    \* "input", "forward", "backward", "self"
  dA, dB,    \* the two points
  dAB,       \* calculateDistance(a, b)
  dBA,       \* calculateDistance(b, a)
  dAA        \* calculateDistance(a, a)

dvars == <<dPhase, dA, dB, dAB, dBA, dAA>>

DistanceInit ==
  /\ dPhase = "input"
  /\ \E pq \in DistancePairs : dA = pq[1] /\ dB = pq[2]
  /\ dAB = Null /\ dBA = Null /\ dAA = Null

DistanceForward ==
  /\ dPhase = "input"
  /\ dPhase' = "forward"
  /\ dAB' = calculateDistance(dA.lat, dA.lng, dB.lat, dB.lng)
  /\ UNCHANGED <<dA, dB, dBA, dAA>>

DistanceBackward ==
  /\ dPhase = "forward"
  /\ dPhase' = "backward"
  /\ dBA' = calculateDistance(dB.lat, dB.lng, dA.lat, dA.lng)
  /\ UNCHANGED <<dA, dB, dAB, dAA>>

DistanceSelf ==
  /\ dPhase = "backward"
  /\ dPhase' = "self"
  /\ dAA' = calculateDistance(dA.lat, dA.lng, dA.lat, dA.lng)
  /\ UNCHANGED <<dA, dB, dAB, dBA>>

(***************************************************************************)
(* The extraction of getLocationFromIP on its own: one pair of values,     *)
(* handed over in each of the shapes a provider can use.                   *)
(***************************************************************************)
NormLats == {150000, 315900, 0 - 250000, 1, 0}
NormLngs == {10370000, 10168690, 0 - 7700000, 0}

Shapes == {"latitude/number", "latitude/string", "lat/number", "lat/string", "loc"}

\* the payload that carries (lat, lng) in the given shape
ShapePayload(shape, lat, lng) ==
  CASE shape = "latitude/number" ->
         [EmptyData EXCEPT !.latitude = Num(lat), !.longitude = Num(lng)]
    [] shape = "latitude/string" ->
         [EmptyData EXCEPT !.latitude = Str(NumberToString(lat)),
                           !.longitude = Str(NumberToString(lng))]
    [] shape = "lat/number" ->
         [EmptyData EXCEPT !.lat = Num(lat), !.lon = Num(lng)]
    [] shape = "lat/string" ->
         [EmptyData EXCEPT !.lat = Str(NumberToString(lat)),
                           !.lon = Str(NumberToString(lng))]
    [] shape = "loc" ->
         [EmptyData EXCEPT !.loc = Str(NumberToString(lat) \o <<",">>
                                         \o NumberToString(lng))]

VARIABLES
  nLat, nLng,  \* the values the provider reports
  nOut         \* per shape, whether it was tried and the coordinate returned

nvars == <<nLat, nLng, nOut>>

NotTried == [done |-> FALSE, coordinate |-> Null]

NormInit ==
  /\ nLat \in NormLats
  /\ nLng \in NormLngs
  /\ nOut = [shape \in Shapes |-> NotTried]

\* one provider answers with the values in the given shape
Normalize(shape) ==
  /\ ~nOut[shape].done
  /\ nOut' = [nOut EXCEPT ![shape] =
                [done |-> TRUE,
                 coordinate |-> ServiceCoordinate([kind |-> "ok",
                                   data |-> ShapePayload(shape, nLat, nLng)])]]
  /\ UNCHANGED <<nLat, nLng>>

(***************************************************************************)
(* The MerchantList component: its filters and the pagination of the       *)
(* filtered list.  Strings are sequences of characters.                    *)
(***************************************************************************)
MaxList == 25
PageSize == 10

All == <<"a", "l", "l">>

\* String.prototype.toLowerCase over the letters the data uses
LowerChar(ch) ==
  CASE ch = "K" -> "k" [] ch = "M" -> "m" [] ch = "J" -> "j"
    [] ch = "P" -> "p" [] ch = "I" -> "i" [] OTHER -> ch

toLowerCase(str) == [i \in 1..Len(str) |-> LowerChar(str[i])]

\* String.prototype.includes
includes(str, sub) ==
  \E i \in 1..(Len(str) - Len(sub) + 1) : SubSeq(str, i, i + Len(sub) - 1) = sub

\* Math.min
Min(a, b) == IF a < b THEN a ELSE b

\* Array.prototype.slice(0, end)
slice(list, end) == SubSeq(list, 1, Min(end, Len(list)))

\* the i-th merchant a parent can hand over
ListMerchant(i) ==
  [merchantId |-> i,
   tradingName |-> IF i % 2 = 1 THEN <<"K", "e", "d", "a", "i">> ELSE <<"M", "a", "r", "t">>,
   address1 |-> <<"J", "l", "n">>, address2 |-> <<>>, address3 |-> <<>>,
   city |-> IF i % 3 = 0 THEN <<"M", "u", "a", "r">> ELSE <<"I", "p", "o", "h">>,
   state |-> IF i % 3 = 0 THEN <<"J", "o", "h", "o", "r">> ELSE <<"P", "e", "r", "a", "k">>,
   postalCode |-> IF i % 3 = 0 THEN <<"8", "4">> ELSE <<"3", "0">>]

\* the lists the merchants prop can hold
ListProps == { [i \in 1..n |-> ListMerchant(i)] : n \in {0, 12, MaxList} }

SearchTerms == { <<>>, <<"k", "e">>, <<"M">> }

VARIABLES
  lMerchants,            \* props.merchants
  searchTerm, stateFilter, cityFilter,
  visibleCount,
  isLoadingMoreVisible,
  timers                 \* pending setTimeout callbacks: the filteredMerchants.length each closed over

lvars == <<lMerchants, searchTerm, stateFilter, cityFilter, visibleCount,
           isLoadingMoreVisible, timers>>

ListInit ==
  /\ lMerchants \in ListProps
  /\ searchTerm = <<>>
  /\ stateFilter = All
  /\ cityFilter = All
  /\ visibleCount = PageSize
  /\ isLoadingMoreVisible = FALSE
  /\ timers = <<>>

\* the options of the two Select controls
states == {lMerchants[i].state : i \in DOMAIN lMerchants}
cities == {lMerchants[i].city : i \in DOMAIN lMerchants}

matchesSearch(merchant) ==
  \/ searchTerm = <<>>
  \/ includes(toLowerCase(merchant.tradingName), toLowerCase(searchTerm))
  \/ includes(toLowerCase(merchant.address1), toLowerCase(searchTerm))
  \/ includes(toLowerCase(merchant.address2), toLowerCase(searchTerm))
  \/ includes(toLowerCase(merchant.address3), toLowerCase(searchTerm))
  \/ includes(toLowerCase(merchant.city), toLowerCase(searchTerm))
  \/ includes(toLowerCase(merchant.state), toLowerCase(searchTerm))
  \/ includes(merchant.postalCode, searchTerm)

matchesState(merchant) == stateFilter = All \/ merchant.state = stateFilter

matchesCityFilter(merchant) == cityFilter = All \/ merchant.city = cityFilter

filteredMerchants ==
  SelectSeq(lMerchants,
            LAMBDA m : matchesSearch(m) /\ matchesState(m) /\ matchesCityFilter(m))

visibleMerchants == slice(filteredMerchants, visibleCount)

hasMoreVisibleStores == visibleCount < Len(filteredMerchants)

\* the parent renders the list with another merchants prop
MerchantsPropChange(list) ==
  /\ list # lMerchants
  /\ lMerchants' = list
  /\ UNCHANGED <<searchTerm, stateFilter, cityFilter, visibleCount, isLoadingMoreVisible,
                 timers>>

\* the search input's onChange, and the effect on [searchTerm, stateFilter, cityFilter]
SetSearchTerm(term) ==
  /\ term # searchTerm
  /\ searchTerm' = term
  /\ visibleCount' = PageSize
  /\ UNCHANGED <<lMerchants, stateFilter, cityFilter, isLoadingMoreVisible, timers>>

\* the state Select's onValueChange, and the effect
SetStateFilter(value) ==
  /\ value \in {All} \cup states
  /\ value # stateFilter
  /\ stateFilter' = value
  /\ visibleCount' = PageSize
  /\ UNCHANGED <<lMerchants, searchTerm, cityFilter, isLoadingMoreVisible, timers>>

\* the city Select's onValueChange, and the effect
SetCityFilter(value) ==
  /\ value \in {All} \cup cities
  /\ value # cityFilter
  /\ cityFilter' = value
  /\ visibleCount' = PageSize
  /\ UNCHANGED <<lMerchants, searchTerm, stateFilter, isLoadingMoreVisible, timers>>

\* handleLoadMoreVisibleStores, from the button rendered when
\* filteredMerchants.length > 0 && hasMoreVisibleStores and disabled while
\* isLoadingMoreVisible
handleLoadMoreVisibleStores ==
  /\ Len(filteredMerchants) > 0
  /\ ~isLoadingMoreVisible
  /\ hasMoreVisibleStores
  /\ isLoadingMoreVisible' = TRUE
  /\ timers' = Append(timers, Len(filteredMerchants))
  /\ UNCHANGED <<lMerchants, searchTerm, stateFilter, cityFilter, visibleCount>>

\* the setTimeout callback, 300 ms later
LoadMoreVisibleTimeout ==
  /\ timers # <<>>
  /\ visibleCount' = Min(visibleCount + PageSize, Head(timers))
  /\ isLoadingMoreVisible' = FALSE
  /\ timers' = Tail(timers)
  /\ UNCHANGED <<lMerchants, searchTerm, stateFilter, cityFilter>>

(***************************************************************************)
(* One find-me followed through its resolution: the call of                *)
(* getLocationWithFallback() made by the observed call of                  *)
(* handleFindNearMe runs step by step, the other calls complete with one   *)
(* of the values a resolution can produce.                                 *)
(***************************************************************************)
VARIABLE observed   \* the call of handleFindNearMe that is followed

ovars == <<observed>>

ObservedInit == observed \in 1..MaxRequests

\* what the providers answer to this user: a failure, or the user's coordinate
LiveResponses ==
  { [kind |-> k, data |-> EmptyData] : k \in {"timeout", "notok"} }
  \cup { [kind |-> "ok", data |-> d] :
           d \in { EmptyData,
                   [EmptyData EXCEPT !.latitude = Num(315900), !.longitude = Num(10168690)] } }

\* what the sensor reports to this user
LiveFixes == { [lat |-> 313900, lng |-> 10168690, accuracy |-> 20] }

\* what the resolutions of the other calls produce
LiveResults ==
  { PositionResult([latitude |-> f.lat, longitude |-> f.lng, accuracy |-> f.accuracy]) :
      f \in LiveFixes }
  \cup { IpFallbackResult(IpLocation(c)) : c \in IpCoordinates }

\* conjoined with a step of the page that may call handleFindNearMe: the
\* observed call's getLocationWithFallback() starts within that step
ObservedStarts ==
  IF started' = observed /\ started # observed
  THEN GetLocationWithFallback
  ELSE UNCHANGED rvars

\* the await of the observed call settles: the rest of handleFindNearMe runs
LiveSettle ==
  /\ rpc = "done"
  /\ observed \in pending
  /\ IF outcome = "resolved"
     THEN FindNearMeResolved(observed, result)
     ELSE FindNearMeRejected(observed)

\* the sensor answers the observed call
LiveSensor ==
  \/ \E fix \in LiveFixes : SensorSuccess(fix)
  \/ \E code \in SensorErrors : SensorError(code)

\* a provider answers the observed call, fails or times out
LiveFetch == \E resp \in LiveResponses : FetchSettle(resp)

(***************************************************************************)
(* Specifications.  Each one moves its own part of the state and holds     *)
(* the rest at its initial value.                                          *)
(***************************************************************************)
vars == <<rvars, pvars, svars, dvars, nvars, lvars, ovars>>

ResolverIdle ==
  /\ hasGeolocation = TRUE /\ rpc = "idle" /\ ipCaller = "none" /\ ipIndex = 0
  /\ sensorState = "none" /\ sensorRequests = 0 /\ sensorPosition = Null
  /\ queried = [s \in Services |-> 0]
  /\ ipLog = <<>> /\ lastResponse = NoResponse /\ firstValid = Null
  /\ outcome = "pending" /\ result = Null /\ geocodeRequests = 0

PageIdle ==
  /\ merchants = <<>> /\ selectedMerchant = Null /\ userLocation = Null
  /\ isLoadingLocation = FALSE /\ currentRadius = 5 /\ isLoadingMore = FALSE
  /\ hasMoreStores = TRUE /\ isMobileSheetOpen = FALSE /\ isInAppBrowser = FALSE
  /\ searchMode = "proximity" /\ selectedState = Null /\ mapCenter = Null
  /\ isMobile = FALSE /\ mounted = FALSE /\ started = 0 /\ pending = {}
  /\ newest = [id |-> 0, location |-> Null]

SearchIdle ==
  /\ sPhase = "input" /\ sCentre = [lat |-> 313900, lng |-> 10168690]
  /\ sRecords = <<>> /\ sRadius = 0 /\ sResult = <<>> /\ sStep = 0 /\ sWider = <<>>

DistanceIdle ==
  /\ dPhase = "input"
  /\ dA = [lat |-> 0, lng |-> 0] /\ dB = [lat |-> 0, lng |-> 0]
  /\ dAB = Null /\ dBA = Null /\ dAA = Null

NormIdle ==
  /\ nLat = 0 /\ nLng = 0 /\ nOut = [shape \in Shapes |-> NotTried]

ObservedIdle == observed = 0

ListIdle ==
  /\ lMerchants = <<>> /\ searchTerm = <<>> /\ stateFilter = All /\ cityFilter = All
  /\ visibleCount = PageSize /\ isLoadingMoreVisible = FALSE /\ timers = <<>>

\* the Index page
Init == PageInit /\ ResolverIdle /\ SearchIdle /\ DistanceIdle /\ NormIdle /\ ListIdle /\ ObservedIdle

Next ==
  \/ (MountEffect /\ UNCHANGED <<rvars, svars, dvars, nvars, lvars, ovars>>)
  \/ (\E button \in FindMeButtons : ClickFindMe(button) /\ UNCHANGED <<rvars, svars, dvars, nvars, lvars, ovars>>)
  \/ (\E id \in 1..MaxRequests, location \in ResolutionResults :
        FindNearMeResolved(id, location) /\ UNCHANGED <<rvars, svars, dvars, nvars, lvars, ovars>>)
  \/ (\E id \in 1..MaxRequests : FindNearMeRejected(id) /\ UNCHANGED <<rvars, svars, dvars, nvars, lvars, ovars>>)
  \/ (handleLoadMoreStores /\ UNCHANGED <<rvars, svars, dvars, nvars, lvars, ovars>>)
  \/ (\E mode \in {"proximity", "state"} :
        handleSearchModeChange(mode) /\ UNCHANGED <<rvars, svars, dvars, nvars, lvars, ovars>>)
  \/ (\E state \in {Str(st) : st \in States} \cup {Null} :
        handleStateChange(state) /\ UNCHANGED <<rvars, svars, dvars, nvars, lvars, ovars>>)
  \/ (\E i \in 1..Len(merchantsData) : handleMerchantSelect(i) /\ UNCHANGED <<rvars, svars, dvars, nvars, lvars, ovars>>)
  \/ (\E open \in BOOLEAN : SetIsMobileSheetOpen(open) /\ UNCHANGED <<rvars, svars, dvars, nvars, lvars, ovars>>)

Spec == Init /\ [][Next]_vars

\* one call of getLocationWithFallback()
InitResolver ==
  ResolverInit /\ PageIdle /\ SearchIdle /\ DistanceIdle /\ NormIdle /\ ListIdle /\ ObservedIdle

NextResolver ==
  \/ (GetLocationWithFallback /\ UNCHANGED <<pvars, svars, dvars, nvars, lvars, ovars>>)
  \/ (\E fix \in SensorFixes : SensorSuccess(fix) /\ UNCHANGED <<pvars, svars, dvars, nvars, lvars, ovars>>)
  \/ (\E code \in SensorErrors : SensorError(code) /\ UNCHANGED <<pvars, svars, dvars, nvars, lvars, ovars>>)
  \/ (\E resp \in Responses : FetchSettle(resp) /\ UNCHANGED <<pvars, svars, dvars, nvars, lvars, ovars>>)

SpecResolver == InitResolver /\ [][NextResolver]_vars

\* one search and its widening
InitSearch ==
  SearchInit /\ ResolverIdle /\ PageIdle /\ DistanceIdle /\ NormIdle /\ ListIdle /\ ObservedIdle

NextSearch ==
  \/ (Search /\ UNCHANGED <<rvars, pvars, dvars, nvars, lvars, ovars>>)
  \/ (\E d \in 1..MaxStep : SearchWider(d) /\ UNCHANGED <<rvars, pvars, dvars, nvars, lvars, ovars>>)

SpecSearch == InitSearch /\ [][NextSearch]_vars

\* calculateDistance applied to one pair of points
InitDistance ==
  DistanceInit /\ ResolverIdle /\ PageIdle /\ SearchIdle /\ NormIdle /\ ListIdle /\ ObservedIdle

NextDistance ==
  \/ (DistanceForward /\ UNCHANGED <<rvars, pvars, svars, nvars, lvars, ovars>>)
  \/ (DistanceBackward /\ UNCHANGED <<rvars, pvars, svars, nvars, lvars, ovars>>)
  \/ (DistanceSelf /\ UNCHANGED <<rvars, pvars, svars, nvars, lvars, ovars>>)

SpecDistance == InitDistance /\ [][NextDistance]_vars

\* one pair of values in every provider shape
InitNorm ==
  NormInit /\ ResolverIdle /\ PageIdle /\ SearchIdle /\ DistanceIdle /\ ListIdle /\ ObservedIdle

NextNorm ==
  \E shape \in Shapes : Normalize(shape) /\ UNCHANGED <<rvars, pvars, svars, dvars, lvars, ovars>>

SpecNorm == InitNorm /\ [][NextNorm]_vars

\* one MerchantList
InitList ==
  ListInit /\ ResolverIdle /\ PageIdle /\ SearchIdle /\ DistanceIdle /\ NormIdle /\ ObservedIdle

NextList ==
  \/ (\E list \in ListProps :
        MerchantsPropChange(list) /\ UNCHANGED <<rvars, pvars, svars, dvars, nvars, ovars>>)
  \/ (\E term \in SearchTerms :
        SetSearchTerm(term) /\ UNCHANGED <<rvars, pvars, svars, dvars, nvars, ovars>>)
  \/ (\E value \in {All} \cup states :
        SetStateFilter(value) /\ UNCHANGED <<rvars, pvars, svars, dvars, nvars, ovars>>)
  \/ (\E value \in {All} \cup cities :
        SetCityFilter(value) /\ UNCHANGED <<rvars, pvars, svars, dvars, nvars, ovars>>)
  \/ (handleLoadMoreVisibleStores /\ UNCHANGED <<rvars, pvars, svars, dvars, nvars, ovars>>)
  \/ (LoadMoreVisibleTimeout /\ UNCHANGED <<rvars, pvars, svars, dvars, nvars, ovars>>)

SpecList == InitList /\ [][NextList]_vars

\* the Index page with one find-me followed through its resolution; the
\* sensor and the providers answer, fail or time out (the 10 s and 5 s
\* timeouts), and a settled await is resumed.  Selecting a merchant is left
\* out: selectedMerchant is read by no step of the find-me flow.
hvars == <<svars, dvars, nvars, lvars>>

InitLive ==
  /\ PageInit /\ ResolverInit /\ ObservedInit
  /\ SearchIdle /\ DistanceIdle /\ NormIdle /\ ListIdle

NextLive ==
  \/ (MountEffect /\ ObservedStarts /\ UNCHANGED <<hvars, ovars>>)
  \/ (\E button \in FindMeButtons :
        ClickFindMe(button) /\ ObservedStarts /\ UNCHANGED <<hvars, ovars>>)
  \/ (LiveSensor /\ UNCHANGED <<pvars, hvars, ovars>>)
  \/ (LiveFetch /\ UNCHANGED <<pvars, hvars, ovars>>)
  \/ (LiveSettle /\ UNCHANGED <<rvars, hvars, ovars>>)
  \/ (\E id \in 1..MaxRequests \ {observed}, location \in LiveResults :
        FindNearMeResolved(id, location) /\ UNCHANGED <<rvars, hvars, ovars>>)
  \/ (\E id \in 1..MaxRequests \ {observed} :
        FindNearMeRejected(id) /\ UNCHANGED <<rvars, hvars, ovars>>)
  \/ (handleLoadMoreStores /\ UNCHANGED <<rvars, hvars, ovars>>)
  \/ (\E mode \in {"proximity", "state"} :
        handleSearchModeChange(mode) /\ UNCHANGED <<rvars, hvars, ovars>>)
  \/ (\E state \in {Str(st) : st \in States} \cup {Null} :
        handleStateChange(state) /\ UNCHANGED <<rvars, hvars, ovars>>)
  \/ (\E open \in BOOLEAN : SetIsMobileSheetOpen(open) /\ UNCHANGED <<rvars, hvars, ovars>>)

\* the step LiveSettle by what it does to pending: in NextLive no other step
\* takes the observed call out of pending
ObservedSettles ==
  /\ rpc = "done"
  /\ observed \in pending
  /\ pending' = pending \ {observed}

FairLive ==
  /\ WF_vars(LiveSensor /\ UNCHANGED <<pvars, hvars, ovars>>)
  /\ WF_vars(LiveFetch /\ UNCHANGED <<pvars, hvars, ovars>>)
  /\ WF_pending(ObservedSettles)

SpecLive == InitLive /\ [][NextLive]_vars /\ FairLive

(***************************************************************************)
(* Properties.                                                             *)
(***************************************************************************)
SensorFailed == sensorState \in SensorErrors

SensorFailedOrUnsupported == sensorState \in SensorErrors \cup {"unsupported"}

\* C1: when the sensor request fails and a provider returns a valid
\* payload, the call resolves with method 'ip', the coordinate of the first
\* provider that returned a valid payload, and accuracy 50000.
C1_IpFallbackTaggedIp ==
  (rpc = "done" /\ SensorFailed /\ firstValid # Null)
    => /\ outcome = "resolved"
       /\ result.method = "ip"
       /\ result.accuracy = IpAccuracy
       /\ result.lat = firstValid.lat /\ result.lng = firstValid.lng

\* C2: no retries within one resolution call: the sensor is requested at
\* most once and every IP provider is queried at most once.
C2_NoRetries ==
  /\ sensorRequests <= 1
  /\ \A s \in Services : queried[s] <= 1

\* C3: a provider whose payload parses to a latitude outside [-90, 90] or a
\* longitude outside [-180, 180] is rejected: getLocationFromIP never
\* returns such a coordinate.
C3_OutOfRangeRejected ==
  \A i \in DOMAIN ipLog :
    ipLog[i].coordinate # Null => InRange(ipLog[i].coordinate.lat, ipLog[i].coordinate.lng)

\* C4: within one getLocationFromIP call the providers are queried one at a
\* time in list order, the next one only after the previous one failed, and
\* none after the first one whose payload carries a parseable coordinate.
C4_SequentialUntilFirstParseable ==
  /\ \A i \in DOMAIN ipLog : ipLog[i].service = i
  /\ rpc = "fetch" => ipIndex = Len(ipLog) + 1
  /\ \A i \in DOMAIN ipLog :
       ipLog[i].carried # Null => (i = Len(ipLog) /\ rpc = "done")

\* C5: when the sensor request succeeds the call resolves with method
\* 'gps', the sensor's coordinate and the sensor's accuracy, and no IP
\* provider is queried; providers are queried only after the sensor has
\* failed or is unsupported.
C5_SensorSuccessIsGps ==
  /\ sensorState = "ok"
       => /\ rpc = "done" /\ outcome = "resolved"
          /\ result = [lat |-> sensorPosition.lat, lng |-> sensorPosition.lng,
                       accuracy |-> sensorPosition.accuracy, method |-> "gps"]
          /\ \A s \in Services : queried[s] = 0
  /\ (\E s \in Services : queried[s] > 0) => SensorFailedOrUnsupported

C5_Witness == rpc = "done" /\ sensorState = "ok" /\ sensorPosition.accuracy = 1500

\* C6: a resolution call rejects if and only if the sensor fails or is
\* unsupported and every IP provider fails or returns a malformed payload.
C6_RejectsIffAllFail ==
  rpc = "done"
    => (outcome = "rejected" <=> (SensorFailedOrUnsupported /\ firstValid = Null))

\* C7: at most one location resolution is in flight at any time.
C7_OneInFlight == Cardinality(pending) <= 1

\* C8: once all pending resolutions have completed, userLocation is the one
\* produced by the most recently started request that succeeded.
C8_LatestRequestWins ==
  (pending = {} /\ newest.location # Null) => userLocation = newest.location

\* the distance of a record from the centre of the search
DistanceOf(rec) == calculateDistance(sCentre.lat, sCentre.lng, rec.latitude, rec.longitude)

\* C9: the search returns exactly the records whose distance is <= r (a
\* record exactly r away included), each once and annotated with its
\* distance, in non-decreasing order of distance.
C9_SearchExactAndSorted ==
  sPhase # "input"
    => /\ \A i \in DOMAIN sRecords :
            (DistanceOf(sRecords[i]) <= sRadius * 100)
              <=> (\E j \in DOMAIN sResult : sResult[j].merchantId = sRecords[i].merchantId)
       /\ \A j, k \in DOMAIN sResult :
            sResult[j].merchantId = sResult[k].merchantId => j = k
       /\ \A j \in DOMAIN sResult :
            \E i \in DOMAIN sRecords :
              /\ sResult[j].merchantId = sRecords[i].merchantId
              /\ sResult[j].latitude = sRecords[i].latitude
              /\ sResult[j].longitude = sRecords[i].longitude
              /\ sResult[j].state = sRecords[i].state
              /\ sResult[j].distance = DistanceOf(sRecords[i])
       /\ \A j \in 1..(Len(sResult) - 1) : sResult[j].distance <= sResult[j + 1].distance

\* a search that keeps a record exactly r away, drops a farther one and has
\* to reorder the records it keeps
C9_Witness ==
  /\ sPhase = "searched"
  /\ \E j \in DOMAIN sResult : sResult[j].distance = sRadius * 100
  /\ Len(sResult) = 2 /\ Len(sRecords) = 3
  /\ sResult[1].merchantId = sRecords[3].merchantId

\* C10: every record returned at radius r is also returned at radius r + d,
\* for every d > 0.
C10_MonotonicExpansion ==
  sPhase = "expanded"
    => \A j \in DOMAIN sResult : \E k \in DOMAIN sWider : sWider[k] = sResult[j]

C10_Witness ==
  sPhase = "expanded" /\ Len(sResult) >= 1 /\ Len(sWider) > Len(sResult)

\* what loadStoresInRadius(lat, lng, radius) has to leave behind
LoadedAtRadius(lat, lng, radius) ==
  /\ merchants' = sortMerchantsByDistance(merchantsData, lat, lng, radius)
  /\ currentRadius' = radius
  /\ hasMoreStores'
       <=> (Len(sortMerchantsByDistance(merchantsData, lat, lng, radius + 5))
              > Len(sortMerchantsByDistance(merchantsData, lat, lng, radius)))

\* C11: after every loadStoresInRadius(lat, lng, r), hasMoreStores is true
\* if and only if the search at radius r + 5 returns strictly more records
\* than the search at radius r, and the merchant list and currentRadius are
\* those of radius r.  The calls are the completion of a find-me, a
\* load-more, and the switch to proximity mode with a known location.
C11_HasMoreIffNextRadiusLarger ==
  [][ /\ \A id \in pending, location \in ResolutionResults :
           FindNearMeResolved(id, location)
             => LoadedAtRadius(location.lat, location.lng,
                               InitialRadius(location.accuracy))
      /\ handleLoadMoreStores
           => LoadedAtRadius(userLocation.lat, userLocation.lng, currentRadius + 5)
      /\ (userLocation # Null /\ handleSearchModeChange("proximity"))
           => LoadedAtRadius(userLocation.lat, userLocation.lng, currentRadius) ]_vars

\* a load-more that reached the radius beyond which the next 5 km add nothing
C11_Witness ==
  /\ userLocation # Null /\ searchMode = "proximity"
  /\ currentRadius = 10 /\ ~hasMoreStores /\ Len(merchants) = 5

\* C19: in every reachable state of the proximity page with userLocation
\* set, the displayed merchant list is the search of the full data set
\* around userLocation at currentRadius.
C19_ListIsSearchAroundLocation ==
  (userLocation # Null /\ searchMode = "proximity")
    => merchants = sortMerchantsByDistance(merchantsData, userLocation.lat,
                                           userLocation.lng, currentRadius)

\* two find-me completions and a load-more behind it, from the low-accuracy
\* location
C19_Witness ==
  /\ userLocation # Null /\ searchMode = "proximity"
  /\ started = 2 /\ pending = {} /\ newest.id = 2
  /\ userLocation.accuracy = IpAccuracy /\ currentRadius = 15

\* C20: when the resolution of a find-me rejects, userLocation, the merchant
\* list, currentRadius and hasMoreStores keep their values and
\* isLoadingLocation is set back to false.
C20_FailureLeavesPageUnchanged ==
  [][ (\E id \in 1..MaxRequests : FindNearMeRejected(id))
        => /\ UNCHANGED <<userLocation, merchants, currentRadius, hasMoreStores>>
           /\ isLoadingLocation' = FALSE ]_vars

\* the second find-me rejected while the location and the list of the first
\* are shown
C20_Witness ==
  /\ started = 2 /\ pending = {} /\ newest.id = 1
  /\ userLocation # Null /\ Len(merchants) >= 1 /\ ~isLoadingLocation

\* C12: a search with radius 0 returns only records whose coordinates
\* coincide exactly with the centre.
C12_RadiusZeroOnlyCoincident ==
  (sPhase # "input" /\ sRadius = 0)
    => \A j \in DOMAIN sResult :
         sResult[j].latitude = sCentre.lat /\ sResult[j].longitude = sCentre.lng

\* C13: a search called with a negative radius does not return a result
\* list.
C13_NegativeRadiusRejected == sRadius < 0 => sPhase = "input"

\* the place of a returned record in the input list
InputIndex(rec) == CHOOSE i \in DOMAIN sRecords : sRecords[i].merchantId = rec.merchantId

\* C14: two records of the result with equal distance appear in the order
\* they have in the input list, and the records at distance 0 come first.
C14_StableSort ==
  sPhase # "input"
    => /\ \A j, k \in DOMAIN sResult :
            (j < k /\ sResult[j].distance = sResult[k].distance)
              => InputIndex(sResult[j]) < InputIndex(sResult[k])
       /\ \A j, k \in DOMAIN sResult :
            (sResult[j].distance = 0 /\ sResult[k].distance > 0) => j < k

\* the record at distance 0 was last in the input, behind two records at
\* one and the same distance
C14_Witness ==
  /\ sPhase = "searched" /\ Len(sResult) = 3 /\ Len(sRecords) = 3
  /\ sResult[1].distance = 0 /\ sResult[1].merchantId = sRecords[3].merchantId
  /\ sResult[2].distance = sResult[3].distance /\ sResult[2].distance > 0

C16_ShapesAgree ==
  \A v, w \in Shapes :
    (nOut[v].done /\ nOut[w].done) => nOut[v].coordinate = nOut[w].coordinate

\* C17: a sensor timeout, like every sensor error, moves the resolver to
\* the IP strategy; a provider that times out, throws a network error or
\* answers with a non-OK status makes the loop go on with the next provider
\* and leaves the resolution pending.
C17_TimeoutLikeError ==
  [][ /\ (rpc = "sensor" /\ sensorState' \in SensorErrors)
           => /\ rpc' = "fetch" /\ ipIndex' = FirstService
              /\ queried'[FirstService] = queried[FirstService] + 1
              /\ outcome' = "pending"
      /\ (rpc = "fetch" /\ ipIndex < NumServices
            /\ lastResponse'.kind \in {"timeout", "error", "notok"})
           => /\ rpc' = "fetch" /\ ipIndex' = NextService(ipIndex)
              /\ queried'[NextService(ipIndex)] = queried[NextService(ipIndex)] + 1
              /\ outcome' = "pending" ]_vars

\* after a sensor timeout the first provider timed out and the loop is at
\* the second
C17_Witness ==
  /\ sensorState = "TIMEOUT" /\ rpc = "fetch" /\ ipIndex = 2
  /\ lastResponse.kind = "timeout" /\ outcome = "pending"

\* C18: no run of getLocationWithFallback calls the geocoding collaborator
\* or yields a result tagged 'manual': the method of its result is always
\* 'gps' or 'ip'.
C18_NeverManual ==
  /\ geocodeRequests = 0
  /\ outcome = "resolved" => result.method \in {"gps", "ip"}

\* the call resolved from the catch block of getLocationWithFallback
C18_Witness ==
  rpc = "done" /\ outcome = "resolved" /\ result.method = "ip"

\* C22: isLoadingLocation is true in every state in which at least one
\* location resolution is still pending.
C22_LoadingWhilePending == pending # {} => isLoadingLocation

\* C23: handleLoadMoreStores takes effect only with a userLocation and
\* isLoadingMore false; it then recomputes the list around the unchanged
\* userLocation at currentRadius + 5, raises currentRadius by exactly 5 and
\* leaves userLocation and selectedMerchant unchanged.
C23_LoadMoreRaisesRadiusByFive ==
  [][ handleLoadMoreStores
        => /\ userLocation # Null /\ ~isLoadingMore
           /\ currentRadius' = currentRadius + 5
           /\ merchants' = sortMerchantsByDistance(merchantsData, userLocation.lat,
                                                   userLocation.lng, currentRadius + 5)
           /\ UNCHANGED <<userLocation, selectedMerchant>> ]_vars

\* a load-more from 5 km to 10 km with a merchant selected
C23_Witness ==
  /\ userLocation # Null /\ userLocation.accuracy = 20 /\ currentRadius = 10
  /\ selectedMerchant # Null /\ selectedMerchant.merchantId = "m3"

\* C24: if the data set contains a merchant farther from userLocation than
\* currentRadius then hasMoreStores is true.
C24_HasMoreWhileStoresRemain ==
  (/\ userLocation # Null /\ searchMode = "proximity"
   /\ \E i \in DOMAIN merchantsData :
        calculateDistance(userLocation.lat, userLocation.lng,
                          merchantsData[i].latitude, merchantsData[i].longitude)
          > currentRadius * 100)
    => hasMoreStores

\* C25: right after a find-me completes currentRadius is 10 km when the
\* reported accuracy is above 10000 m, 7 km when it is above 1000 m and at
\* most 10000 m, and 5 km otherwise, whatever it was before.
C25_InitialRadiusFromAccuracy ==
  [][ \A id \in pending, location \in ResolutionResults :
        FindNearMeResolved(id, location)
          => currentRadius' = IF location.accuracy > 10000 THEN 10
                              ELSE IF location.accuracy > 1000 THEN 7
                              ELSE 5 ]_vars

\* the second find-me completed with an accuracy of exactly 1000 m
C25_Witness ==
  /\ newest.id = 2 /\ pending = {} /\ userLocation # Null
  /\ userLocation.accuracy = 1000 /\ currentRadius = 5

\* C26: in every reachable state with searchMode = 'state', hasMoreStores
\* is false.
C26_StateModeNoLoadMore == searchMode = "state" => ~hasMoreStores

\* the merchantIds of a list
IdsOf(list) == {list[i].merchantId : i \in DOMAIN list}

\* C27: in every reachable state with searchMode = 'state', the merchant
\* list is empty when selectedState is null and otherwise holds exactly the
\* merchants of the data set whose state is selectedState.
C27_StateModeListIsState ==
  searchMode = "state"
    => IdsOf(merchants)
         = IF selectedState = Null THEN {}
           ELSE {merchantsData[i].merchantId :
                   i \in {j \in DOMAIN merchantsData :
                            merchantsData[j].state = selectedState.s}}

\* C28: a find-me that succeeds sets searchMode = 'proximity',
\* selectedState = null and mapCenter = null, and in every reachable state
\* searchMode = 'proximity' implies selectedState = null.
C28_ProximityHasNoSelectedState ==
  /\ [](searchMode = "proximity" => selectedState = Null)
  /\ [][ (\E id \in pending, location \in ResolutionResults :
            FindNearMeResolved(id, location))
           => (searchMode' = "proximity" /\ selectedState' = Null
               /\ mapCenter' = Null) ]_vars

\* back in proximity search with a merchant selected from a state's list
C28_Witness ==
  /\ searchMode = "proximity" /\ selectedState = Null /\ mapCenter = Null
  /\ userLocation # Null /\ pending = {}
  /\ selectedMerchant # Null /\ selectedMerchant.merchantId = "m6"

\* C30: getLocationFromIP returns the coordinate of every provider payload
\* whose latitude and longitude are in-range numbers, a latitude or
\* longitude of 0 included.
C30_ZeroCoordinateAccepted ==
  \A i \in DOMAIN ipLog :
    (ipLog[i].carried # Null /\ InRange(ipLog[i].carried.lat, ipLog[i].carried.lng))
      => ipLog[i].coordinate = ipLog[i].carried

\* C29: the visible merchants are the first min(visibleCount, |filtered|)
\* entries of the filtered list; visibleCount starts at 10, each completed
\* load-more-visible raises it by 10 capped at the filtered length, every
\* change of the search term, the state filter or the city filter resets it
\* to 10, and at most one load-more-visible timer is pending at a time.
C29_Pagination ==
  /\ visibleCount = 10 /\ timers = <<>>
  /\ [](Len(timers) <= 1)
  /\ [](\A i \in DOMAIN visibleMerchants : visibleMerchants[i] = filteredMerchants[i])
  /\ [](Len(visibleMerchants) = Min(visibleCount, Len(filteredMerchants)))
  /\ [][ <<searchTerm, stateFilter, cityFilter>>' # <<searchTerm, stateFilter, cityFilter>>
           => visibleCount' = 10 ]_vars
  /\ [][ LoadMoreVisibleTimeout
           => visibleCount' = Min(visibleCount + 10, Len(filteredMerchants)) ]_vars

\* C21: provided the sensor and every provider eventually answer, fail or
\* time out, every started handleFindNearMe eventually completes and
\* isLoadingLocation is false when it has.
C21_FindMeTerminates ==
  (observed \in pending) ~> (observed \notin pending /\ ~isLoadingLocation)

\* the observed find-me has completed after the sensor and every provider of
\* both rounds failed: the resolution rejected, and the page is not loading
C21_Witness ==
  /\ rpc = "done" /\ outcome = "rejected"
  /\ ipCaller = "getLocationWithFallback" /\ ipIndex = NumServices
  /\ observed \notin pending /\ ~isLoadingLocation

====
